---- MODULE Spec2Model ----
(***************************************************************************)
(* Session state machine (SessionManager) and per-segment pipeline         *)
(* (SegmentProcessor) of the TypeScript port of Whisper-cli.               *)
(*                                                                         *)
(* Every async method is a pending call in `calls`; the code between two   *)
(* awaits is one action.  The gateway (transcribeAudio, correctText) and   *)
(* the output sink (clipboard write) are external: their answers are       *)
(* chosen nondeterministically.                                            *)
(***************************************************************************)
EXTENDS Integers, Sequences, FiniteSets, TLC

\* ---------------------------------------------------------------- bounds
MaxSessions == 1        \* sessions ever started
MaxSegments == 2        \* ProcessedSegment objects alive at the same time
MaxCalls    == 2        \* async calls pending at the same time
MaxBuffer   == 2        \* payloads buffered by a batch session
MaxTimers   == 1        \* deferred resets pending at the same time
MaxRetries  == 3        \* largest configured gemini.maxRetries
MaxRequests == 2        \* transcribeAudio calls pending at the same time
MaxTextLen  == 16       \* longest text applyDictionary builds
MaxClock    == 4        \* last value of Date.now() for the hotkey listener
MaxEvents   == 4        \* hotkey events emitted
MaxIntervals == 2       \* setInterval timers of the recorder running
MaxIdleTimers == 2      \* setTimeout(idle, 100) of the recorder pending
MaxChunks   == 2        \* chunks generated since the last start

\* ------------------------------------------------------------- constants
DefaultMaxConcurrent == 3
DefaultMinSegmentDuration == 1         \* seconds
DefaultMaxRetries == 2
DefaultRetryDelay == 1000              \* milliseconds
RetryDelayMaximum == 10000             \* the largest retryDelay the schema accepts
DefaultThreshold == 3                  \* hundredths of a second

\* the audio segments a caller submits: audioData, duration in seconds, and
\* whether the segment closes an utterance
AudioSegments ==
  {[audioData |-> <<1>>, duration |-> 0, isFinal |-> FALSE],
   [audioData |-> <<2>>, duration |-> 2, isFinal |-> TRUE]}

Payloads    == {a.audioData : a \in AudioSegments}
undefined   == <<0>>                   \* an optional text field not set
Modes       == {"batch", "realtime"}
States      == {"idle", "recording", "processing", "completed", "error"}

VARIABLES
  currentSessionId,         \* SessionManager: 0 is null
  currentState,
  currentMode,
  sessionConfig,
  sessionSegments,          \* ids of the ProcessedSegments pushed
  sessionAudioBuffer,
  config,                   \* SegmentProcessor.config
  activeSegments,           \* SegmentProcessor: keys of the Map
  completedSegments,
  processorSessionSegments, \* SegmentProcessor.sessionSegments
  segs,                     \* the reachable ProcessedSegment objects, by segment id
  calls,                    \* pending async calls, in order of invocation; each
                            \* remembers whether its session was cancelled
  resetTimers,              \* pending setTimeout(reset, 100)
  errorListener,            \* an 'error' listener is registered
  listenerState,            \* the state a listener holds that started at idle
                            \* and applies the stateChange events
  nextSession,              \* uuidv4 for sessions
  gemini,                   \* GeminiClient: its configuration and the
                            \* transcribeAudio request in progress
  dict,                     \* DictionaryManager: its configuration and entries,
                            \* and the applyDictionary call in progress
  clip,                     \* ClipboardManager.lastBackup and the system clipboard
  hotkey,                   \* MockHotkeyListener, the clock it reads and the
                            \* events it has emitted
  recorder,                 \* MockAudioRecorder and its timers
  last                      \* the step just taken and what it returned

vars == <<currentSessionId, currentState, currentMode, sessionConfig,
          sessionSegments, sessionAudioBuffer, config, activeSegments,
          completedSegments, processorSessionSegments, segs, calls,
          resetTimers, errorListener, listenerState, nextSession, gemini,
          dict, clip, hotkey, recorder, last>>

managerVars == <<currentSessionId, currentState, currentMode,
                 sessionSegments, sessionAudioBuffer>>
processorVars == <<activeSegments, completedSegments, processorSessionSegments>>

\* what no operation of the session manager or of the pipeline assigns
deviceVars == <<hotkey, recorder>>
quietVars == <<config, errorListener, gemini, dict, clip, deviceVars>>
\* and no stateChange event is emitted
fixedVars == <<quietVars, listenerState>>

\* --------------------------------------------------------------- helpers
SessionConfigs ==
  [enableDictionary : BOOLEAN, enableCorrection : BOOLEAN, autoOutputEnabled : BOOLEAN,
   minSegmentDuration : {DefaultMinSegmentDuration}]

\* the configurations the session manager is constructed with: the default
\* one, and the one with every optional stage switched off
ManagerConfigs ==
  {[enableDictionary |-> b, enableCorrection |-> b, autoOutputEnabled |-> b,
    minSegmentDuration |-> DefaultMinSegmentDuration] : b \in BOOLEAN}

Step(op, res) == [op |-> op, res |-> res]

Range(s) == {s[i] : i \in DOMAIN s}

InSeq(x, s) == x \in Range(s)

RemoveAt(s, i) == SubSeq(s, 1, i - 1) \o SubSeq(s, i + 1, Len(s))

\* the buffers joined last first
RECURSIVE ConcatReversed(_)
ConcatReversed(bufs) ==
  IF bufs = <<>> THEN <<>> ELSE ConcatReversed(Tail(bufs)) \o Head(bufs)

\* Buffer.concat
RECURSIVE Concat(_)
Concat(bufs) ==
  IF bufs = <<>> THEN <<>> ELSE Head(bufs) \o Concat(Tail(bufs))

\* segments whose processSegment call has not returned yet
InPipeline == {calls[i].seg : i \in {j \in DOMAIN calls :
                                calls[j].pc \in {"transcribe", "correct", "output"}}}

\* the ProcessedSegment objects still referenced after the step; the others
\* are garbage, and their ids stand for fresh uuids again
LiveNext ==
  activeSegments' \cup Range(completedSegments') \cup Range(sessionSegments')
    \cup Range(processorSessionSegments') \cup {calls'[i].seg : i \in DOMAIN calls'}

Collect(f) == segs' = [s \in (DOMAIN f) \cap LiveNext |-> f[s]]

\* uuidv4 for a segment
FreshSegment == CHOOSE s \in (1..MaxSegments) \ DOMAIN segs :
                  \A t \in (1..MaxSegments) \ DOMAIN segs : s <= t

\* ------------------------------------------------ external collaborators
\* GeminiClient.transcribeAudio as seen by SegmentProcessor.transcribe: an
\* error Result, or ok with the text the model answered; the model hears
\* every audio byte as the word of the same number
TranscribeResults(audio) ==
  {[success |-> FALSE, text |-> <<>>], [success |-> TRUE, text |-> audio]}

\* GeminiClient.correctText: an error Result, or ok(data) where data is the
\* corrected string itself
CorrectResults(text) ==
  {[success |-> FALSE, data |-> <<>>], [success |-> TRUE, data |-> text]}

\* correctionResult.data.correctedText: a property read on a string
correctedText(data) == undefined

\* DictionaryManager.applyDictionary with the entry 1 -> 3: every occurrence
\* is replaced or not, by the random draw of shouldReplace
DictResults(text) ==
  {r \in [DOMAIN text -> {1, 2, 3}] :
     \A i \in DOMAIN text : r[i] = text[i] \/ (text[i] = 1 /\ r[i] = 3)}

\* ClipboardManager.write: text.length throws on undefined; otherwise the
\* clipboard write succeeds or gives an error Result
WriteResults(text) ==
  IF text = undefined THEN {"throw"} ELSE {"ok", "err"}

\* ------------------------------------------------------ SegmentProcessor
NewSegment(audioSegment) ==
  [audio |-> audioSegment.audioData, duration |-> audioSegment.duration,
   isFinal |-> audioSegment.isFinal, status |-> "transcribing", rawTranscript |-> undefined,
   processedTranscript |-> undefined, correctedTranscript |-> undefined,
   finalText |-> undefined, errorMessage |-> FALSE,
   stages |-> <<"transcribe">>]

NewCall(kind, pc, seg, sid, cfg) ==
  [kind |-> kind, pc |-> pc, seg |-> seg, sid |-> sid, cfg |-> cfg,
   text |-> undefined, ok |-> TRUE, cancelled |-> FALSE]

DictionaryOn(c) == config.enableDictionary /\ c.cfg.enableDictionary
CorrectionOn(c) == config.enableCorrection /\ c.cfg.enableCorrection

\* the session configuration not consulted
OutputOnProcessorOnly(c) == config.enableAutoOutput

OutputOn(c) == config.enableAutoOutput /\ c.cfg.autoOutputEnabled

\* processSegment up to its first await: the segment is registered and the
\* transcription request is sent
Submit(kind, audioSegment, cfg) ==
  /\ DOMAIN segs # 1..MaxSegments
  /\ Len(calls) < MaxCalls
  /\ activeSegments' = activeSegments \cup {FreshSegment}
  /\ processorSessionSegments' = Append(processorSessionSegments, FreshSegment)
  /\ calls' = Append(calls, NewCall(kind, "transcribe", FreshSegment,
                                    currentSessionId, cfg))

Submitted(audioSegment) == (FreshSegment :> NewSegment(audioSegment)) @@ segs

\* the catch block of processSegment
Failed(r) == [r EXCEPT !.status = "failed", !.errorMessage = TRUE]

\* step 4, and the entry of step 5 when the output is enabled
SetFinal(r, text, outOn) ==
  [r EXCEPT !.finalText = text,
            !.status = IF outOn THEN "outputting" ELSE "completed",
            !.stages = @ \o <<"final">> \o (IF outOn THEN <<"output">> ELSE <<>>)]

\* the call goes on to its next await, or processSegment returns
\* (pc = "resume"): the segment moves from the active map to the completed list
Settle(i, r, pc, text, ok) ==
  LET s == calls[i].seg IN
  /\ calls' = [calls EXCEPT ![i] = [@ EXCEPT !.pc = pc, !.text = text, !.ok = ok]]
  /\ IF pc = "resume"
       THEN /\ activeSegments' = activeSegments \ {s}
            /\ completedSegments' = Append(completedSegments, s)
       ELSE UNCHANGED <<activeSegments, completedSegments>>
  /\ UNCHANGED <<processorSessionSegments, managerVars>>
  /\ Collect([segs EXCEPT ![s] = r])

AfterOutputPc(outOn) == IF outOn THEN "output" ELSE "resume"

\* steps 1 and 2 once the transcription has answered
Transcribed(r, text, d, dictOn) ==
  [r EXCEPT !.rawTranscript = text,
            !.status = "processing",
            !.processedTranscript = d,
            !.stages = IF dictOn THEN Append(@, "dictionary") ELSE @]

\* the transcription answers; steps 1 and 2, and on to step 3 or 4
TranscribeDone(i) ==
  /\ i \in DOMAIN calls
  /\ calls[i].pc = "transcribe"
  /\ LET c == calls[i]
         r == segs[c.seg]
     IN \E res \in TranscribeResults(r.audio) :
          /\ last' = Step("transcribeDone", IF res.success THEN "ok" ELSE "err")
          /\ IF ~res.success
            THEN Settle(i, Failed(r), "resume", c.text, FALSE)
            ELSE \E d \in (IF DictionaryOn(c) THEN DictResults(res.text) ELSE {res.text}) :
                   LET r1 == Transcribed(r, res.text, d, DictionaryOn(c))
                   IN IF CorrectionOn(c)
                        THEN Settle(i, [r1 EXCEPT !.stages = Append(@, "correct")],
                                    "correct", d, TRUE)
                        ELSE Settle(i, SetFinal([r1 EXCEPT !.correctedTranscript = d],
                                                d, OutputOn(c)),
                                    AfterOutputPc(OutputOn(c)), d, TRUE)
  /\ UNCHANGED <<sessionConfig, resetTimers, fixedVars, nextSession>>

\* the correction answers; step 3, and on to step 4
CorrectDone(i) ==
  /\ i \in DOMAIN calls
  /\ calls[i].pc = "correct"
  /\ LET c == calls[i]
         r == segs[c.seg]
     IN \E res \in CorrectResults(c.text) :
          LET text == IF res.success THEN correctedText(res.data) ELSE c.text
          IN /\ last' = Step("correctDone", IF res.success THEN "ok" ELSE "err")
             /\ Settle(i, SetFinal([r EXCEPT !.correctedTranscript = text],
                                   text, OutputOn(c)),
                       AfterOutputPc(OutputOn(c)), text, TRUE)
  /\ UNCHANGED <<sessionConfig, resetTimers, fixedVars, nextSession>>

\* an error Result of the write taken for a failure of the segment as well
OutputFailsOnError(res) == res # "ok"

\* what makes step 5 leave the try block: only an exception
OutputFails(res) == res = "throw"

\* the output sink answers; step 5
OutputDone(i) ==
  /\ i \in DOMAIN calls
  /\ calls[i].pc = "output"
  /\ LET c == calls[i]
         r == segs[c.seg]
     IN \E res \in WriteResults(c.text) :
          /\ last' = Step("outputDone", res)
          /\ IF OutputFails(res)
               THEN Settle(i, Failed(r), "resume", c.text, FALSE)
               ELSE Settle(i, r, "resume", c.text, TRUE)
  /\ UNCHANGED <<sessionConfig, resetTimers, fixedVars, nextSession>>

\* the segments the session manager holds, which are the successful ones
SessionSegsSucceeded == sessionSegments

\* getSessionStats
SessionSegs ==
  SelectSeq(completedSegments, LAMBDA s : InSeq(s, processorSessionSegments))

RECURSIVE JoinFinalText(_)
JoinFinalText(ids) ==
  IF ids = <<>> THEN <<>>
  ELSE LET t == segs[Head(ids)].finalText
       IN (IF t = undefined THEN <<>> ELSE t) \o JoinFinalText(Tail(ids))

CountStatus(ids, st) == Cardinality({i \in DOMAIN ids : segs[ids[i]].status = st})

getSessionStats ==
  [total |-> Len(SessionSegs),
   completed |-> CountStatus(SessionSegs, "completed"),
   failed |-> CountStatus(SessionSegs, "failed"),
   totalText |-> JoinFinalText(SessionSegs)]

\* -------------------------------------------------------- SessionManager

\* setState(newState): the stateChange event reaches the listener when the
\* state changes
setState(newState) ==
  /\ currentState' = newState
  /\ listenerState' = IF currentState # newState THEN newState ELSE listenerState

\* reset()
Reset ==
  /\ currentSessionId' = 0
  /\ currentState' = "idle"
  /\ sessionSegments' = <<>>
  /\ sessionAudioBuffer' = <<>>
  /\ completedSegments' = <<>>

\* an API call that returns an error Result and does nothing else
Rejected(op) ==
  /\ last' = Step(op, "err")
  /\ UNCHANGED <<managerVars, processorVars, segs, calls, fixedVars, nextSession, sessionConfig,
                 resetTimers>>

StartSessionGuard == currentState # "idle"

\* the guard taken after the lists have been emptied
StartSessionRejectedLate ==
  /\ last' = Step("startSession", "err")
  /\ sessionSegments' = <<>>
  /\ sessionAudioBuffer' = <<>>
  /\ UNCHANGED <<currentSessionId, currentState, currentMode, processorVars, calls,
                 fixedVars, nextSession, sessionConfig, resetTimers>>
  /\ Collect(segs)

StartSessionRejected == Rejected("startSession")

StartSession(mode) ==
  IF StartSessionGuard
    THEN StartSessionRejected
    ELSE /\ nextSession <= MaxSessions
         /\ currentSessionId' = nextSession
         /\ nextSession' = nextSession + 1
         /\ currentMode' = mode
         /\ sessionSegments' = <<>>
         /\ sessionAudioBuffer' = <<>>
         /\ setState("recording")
         /\ processorSessionSegments' = <<>>
         /\ activeSegments' = {}
         /\ last' = Step("startSession", "ok")
         /\ UNCHANGED <<calls, completedSegments, quietVars, sessionConfig,
                        resetTimers>>
         /\ Collect(segs)

\* segments also accepted while the session is being processed
AddAudioSegmentGuardLoose == currentState \notin {"recording", "processing"}

AddAudioSegmentGuard == currentState # "recording"

AddAudioSegment(audioSegment) ==
  IF AddAudioSegmentGuard
    THEN Rejected("addAudioSegment")
    ELSE IF currentMode = "realtime"
      THEN /\ Submit("add", audioSegment, sessionConfig)
           /\ last' = Step("addAudioSegment", "pending")
           /\ UNCHANGED <<managerVars, completedSegments, fixedVars, nextSession, sessionConfig,
                          resetTimers>>
           /\ Collect(Submitted(audioSegment))
      ELSE /\ Len(sessionAudioBuffer) < MaxBuffer
           /\ sessionAudioBuffer' = Append(sessionAudioBuffer, audioSegment.audioData)
           /\ last' = Step("addAudioSegment", "ok")
           /\ UNCHANGED <<currentSessionId, currentState, currentMode,
                          sessionSegments, processorVars, segs, calls, fixedVars, nextSession,
                          sessionConfig, resetTimers>>

\* the continuation of addAudioSegment after `await processSegment`
AddResume(i) ==
  /\ i \in DOMAIN calls
  /\ calls[i].kind = "add"
  /\ calls[i].pc = "resume"
  /\ calls' = RemoveAt(calls, i)
  /\ IF calls[i].ok
       THEN /\ sessionSegments' = Append(sessionSegments, calls[i].seg)
            /\ last' = Step("addResume", "ok")
       ELSE /\ UNCHANGED sessionSegments
            /\ last' = Step("addResume", IF errorListener THEN "ok" ELSE "throw")
  /\ UNCHANGED <<currentSessionId, currentState, currentMode, sessionAudioBuffer,
                 processorVars, fixedVars, nextSession, sessionConfig, resetTimers>>
  /\ Collect(segs)

\* the segment endSession builds from the buffered audio
SyntheticSegment ==
  [audioData |-> Concat(sessionAudioBuffer), duration |-> 0, isFinal |-> TRUE]

PendingEnds == Cardinality({i \in DOMAIN calls : calls[i].kind = "end"})

EndSessionGuard == currentState = "idle"

EndSession ==
  IF EndSessionGuard
    THEN Rejected("endSession")
    ELSE /\ resetTimers + PendingEnds < MaxTimers
         /\ setState("processing")
         /\ IF currentMode = "batch" /\ Len(sessionAudioBuffer) > 0
              THEN /\ Submit("end", SyntheticSegment, sessionConfig)
                   /\ last' = Step("endSession", "pending")
                   /\ UNCHANGED <<currentSessionId, currentMode, sessionSegments,
                                  sessionAudioBuffer, completedSegments>>
                   /\ Collect(Submitted(SyntheticSegment))
              ELSE /\ Len(calls) < MaxCalls
                   /\ calls' = Append(calls, NewCall("end", "wait", 0,
                                                     currentSessionId, sessionConfig))
                   /\ last' = Step("endSession", "pending")
                   /\ UNCHANGED <<currentSessionId, currentMode, sessionSegments,
                                  sessionAudioBuffer, processorVars, segs>>
         /\ UNCHANGED <<quietVars, nextSession, sessionConfig, resetTimers>>

\* the catch block of endSession
EndFailed(i) ==
  /\ calls' = RemoveAt(calls, i)
  /\ setState("error")
  /\ last' = Step("endResume", IF errorListener THEN "err" ELSE "throw")

\* the continuation of endSession after `await processSegment` (batch)
EndResume(i) ==
  /\ i \in DOMAIN calls
  /\ calls[i].kind = "end"
  /\ calls[i].pc = "resume"
  /\ IF calls[i].ok
       THEN /\ sessionSegments' = Append(sessionSegments, calls[i].seg)
            /\ IF calls[i].text # undefined
                 THEN /\ calls' = [calls EXCEPT ![i].pc = "wait"]
                      /\ last' = Step("endResume", "pending")
                      /\ UNCHANGED <<currentState, listenerState>>
                 ELSE EndFailed(i)      \* finalText.substring throws
       ELSE /\ UNCHANGED sessionSegments
            /\ EndFailed(i)
  /\ UNCHANGED <<currentSessionId, currentMode, sessionAudioBuffer, processorVars,
                 quietVars, nextSession, sessionConfig, resetTimers>>
  /\ Collect(segs)

\* waitForCompletion returns
WaitForCompletionDone == activeSegments = {}

generateStats ==
  [sessionId |-> currentSessionId, mode |-> currentMode,
   segmentCount |-> getSessionStats.total,
   successCount |-> getSessionStats.completed,
   failureCount |-> getSessionStats.failed,
   finalText |-> getSessionStats.totalText]

\* the continuation of endSession after `await waitForCompletion`
EndComplete(i) ==
  /\ i \in DOMAIN calls
  /\ calls[i].kind = "end"
  /\ calls[i].pc = "wait"
  /\ WaitForCompletionDone
  /\ calls' = RemoveAt(calls, i)
  /\ setState("completed")
  /\ resetTimers' = resetTimers + 1
  /\ last' = Step("endComplete", "ok")
  /\ UNCHANGED <<currentSessionId, currentMode, sessionSegments, sessionAudioBuffer,
                 processorVars, quietVars, nextSession, sessionConfig>>
  /\ Collect(segs)

\* setTimeout(() => this.reset(), 100) fires
ResetTimer ==
  /\ resetTimers > 0
  /\ resetTimers' = resetTimers - 1
  /\ Reset
  /\ last' = Step("resetTimer", "ok")
  /\ UNCHANGED <<currentMode, calls, activeSegments, processorSessionSegments,
                 fixedVars, nextSession, sessionConfig>>
  /\ Collect(segs)

CancelSession ==
  /\ Reset
  /\ last' = Step("cancelSession", "ok")
  /\ calls' = [i \in DOMAIN calls |->
                 IF currentSessionId # 0 /\ calls[i].sid = currentSessionId
                   THEN [calls[i] EXCEPT !.cancelled = TRUE] ELSE calls[i]]
  /\ UNCHANGED <<currentMode, activeSegments, processorSessionSegments,
                 fixedVars, nextSession, sessionConfig, resetTimers>>
  /\ Collect(segs)

\* ---------------------------------------------------------- GeminiClient
\* what no operation of the gateway or of the dictionary assigns
sessionVars == <<managerVars, processorVars, segs, calls, config, errorListener,
                 listenerState, sessionConfig, resetTimers, nextSession>>

\* what model.generateContent does on one attempt: it answers with a text or
\* with an empty text, or it throws a transient or an authorization error
Responses == {"text", "empty", "transient", "auth"}

\* a transcribeAudio call not made yet
IdleRequest ==
  [audio |-> <<>>, pc |-> "idle", attempt |-> 0, attempts |-> 0,
   lastError |-> "null", lastResponse |-> "none", waited |-> <<>>,
   result |-> "none"]

\* new GeminiClient(config): the constructor throws without an API key, so a
\* constructed client is ready; req holds the transcribeAudio calls, each
\* with the number of generateContent calls it has made (attempts) and the
\* delays it has waited
GeminiConstructed(maxRetries) ==
  gemini = [isReady |-> TRUE, maxRetries |-> maxRetries,
            retryDelay |-> DefaultRetryDelay,
            req |-> [r \in 1..MaxRequests |-> IdleRequest]]

\* one more attempt than configured
RetryLoopContinuesOnceMore(attempt) == attempt <= gemini.maxRetries + 1

\* the condition of the retry loop
RetryLoopContinues(attempt) == attempt <= gemini.maxRetries

\* the head of the retry loop: the next attempt, or the loop is left and the
\* request returns an error Result
LoopHead(g) ==
  IF RetryLoopContinues(g.attempt)
    THEN [g EXCEPT !.pc = "call", !.attempts = @ + 1]
    ELSE [g EXCEPT !.pc = "done", !.result = "err"]

GeminiReturned(g) == IF g.pc = "done" THEN g.result ELSE "pending"

\* transcribeAudio up to its first await
transcribeAudio(r, audio) ==
  /\ gemini.req[r].pc \in {"idle", "done"}
  /\ gemini' =
       [gemini EXCEPT !.req[r] =
          IF ~gemini.isReady
            THEN [IdleRequest EXCEPT !.audio = audio, !.pc = "done", !.result = "err"]
            ELSE LoopHead([IdleRequest EXCEPT !.audio = audio, !.attempt = 1])]
  /\ last' = Step("transcribeAudio", GeminiReturned(gemini'.req[r]))
  /\ UNCHANGED <<sessionVars, dict, clip, deviceVars>>

\* the attempt answers
GenerateContentDone(r) ==
  /\ gemini.req[r].pc = "call"
  /\ \E response \in Responses :
       LET g == [gemini.req[r] EXCEPT !.lastResponse = response]
       IN gemini' =
            [gemini EXCEPT !.req[r] =
               CASE response = "text"  -> [g EXCEPT !.pc = "done", !.result = "ok"]
                 [] response = "empty" -> LoopHead([g EXCEPT !.attempt = @ + 1])
                 [] OTHER ->
                      IF g.attempt < gemini.maxRetries
                        THEN [g EXCEPT !.lastError = response, !.pc = "delay",
                                       !.waited = Append(@, gemini.retryDelay)]
                        ELSE LoopHead([g EXCEPT !.lastError = response,
                                                !.attempt = @ + 1])]
  /\ last' = Step("generateContent", GeminiReturned(gemini'.req[r]))
  /\ UNCHANGED <<sessionVars, dict, clip, deviceVars>>

\* delay(retryDelay) is over
DelayDone(r) ==
  /\ gemini.req[r].pc = "delay"
  /\ gemini' = [gemini EXCEPT !.req[r] = LoopHead([@ EXCEPT !.attempt = @ + 1])]
  /\ last' = Step("delay", GeminiReturned(gemini'.req[r]))
  /\ UNCHANGED <<sessionVars, dict, clip, deviceVars>>

\* ----------------------------------------------------- DictionaryManager
\* A string is the sequence of its characters; offsets count from 0 as in
\* the code.  Weights, thresholds, similarities and the values of
\* Math.random() are in hundredths.
LowerChars == <<"a", "d", "e", "g", "i", "l", "p", "s", "t", "u", "y">>
UpperChars == <<"A", "D", "E", "G", "I", "L", "P", "S", "T", "U", "Y">>

toUpperChar(c) ==
  IF \E n \in DOMAIN LowerChars : LowerChars[n] = c
    THEN UpperChars[CHOOSE n \in DOMAIN LowerChars : LowerChars[n] = c] ELSE c

toLowerChar(c) ==
  IF \E n \in DOMAIN UpperChars : UpperChars[n] = c
    THEN LowerChars[CHOOSE n \in DOMAIN UpperChars : UpperChars[n] = c] ELSE c

toUpperCase(str) == [n \in DOMAIN str |-> toUpperChar(str[n])]
toLowerCase(str) == [n \in DOMAIN str |-> toLowerChar(str[n])]

\* str.substring(from, to) and str.slice(from)
substring(str, from, to) == SubSeq(str, from + 1, to)
slice(str, from) == SubSeq(str, from + 1, Len(str))

Min3(a, b, c) == IF a <= b /\ a <= c THEN a ELSE IF b <= c THEN b ELSE c

\* the Levenshtein distance the matrix of calculateSimilarity holds in its
\* last cell
RECURSIVE Levenshtein(_, _)
Levenshtein(str1, str2) ==
  IF str1 = <<>> THEN Len(str2)
  ELSE IF str2 = <<>> THEN Len(str1)
  ELSE Min3(Levenshtein(Tail(str1), str2) + 1,
            Levenshtein(str1, Tail(str2)) + 1,
            Levenshtein(Tail(str1), Tail(str2))
              + (IF Head(str1) = Head(str2) THEN 0 ELSE 1))

calculateSimilarity(str1, str2) ==
  IF str1 = str2 THEN 100
  ELSE IF str1 = <<>> \/ str2 = <<>> THEN 0
  ELSE LET maxLength == IF Len(str1) >= Len(str2) THEN Len(str1) ELSE Len(str2)
       IN 100 - (100 * Levenshtein(str1, str2)) \div maxLength

\* the strings used
GPT_LOWER == <<"g", "p", "t">>
GPT_UPPER == <<"G", "P", "T">>
GP_LOWER == <<"g", "p">>
AI_LOWER == <<"a", "i">>
I_USE_GPT_DAILY == <<"i", " ", "u", "s", "e", " ", "g", "p", "t", " ", "d", "a", "i", "l", "y">>
I_USE_GPT_DAILY_REPLACED == <<"i", " ", "u", "s", "e", " ", "G", "P", "T", " ", "d", "a", "i", "l", "y">>
GPT_GPT == <<"g", "p", "t", " ", "g", "p", "t">>
GPT_MIXED == <<"G", "p", "t", " ", "G", "P", "T">>
FORTY_TWO == <<"4", "2">>

DefaultWeightThreshold == 60
DefaultMaxWeight == 50
DictionaryConfigs ==
  {[enabled |-> TRUE, weightThreshold |-> DefaultWeightThreshold, maxWeight |-> m] :
     m \in {DefaultMaxWeight, 100}}

\* the values Math.random() takes
RandomDraws == {10, 70}

\* the entries of the dictionary files loaded
Entry(original, target, weight, enabled) ==
  [original |-> original, target |-> target, weight |-> weight, enabled |-> enabled]

\* a line of the dictionary file, trimmed, as the pieces parseLine splits it
\* into: the mapping split at '->', and the number of the weight in percent
NoWeight == -1
DictionaryLine(mapping, weight) == [mapping |-> mapping, weight |-> weight]

\* the lines parseLine does not return null for
Accepted(line) == line.weight # NoWeight /\ line.weight >= 0 /\ line.weight <= 100

parseLine(line) ==
  Entry(line.mapping[1],
        IF Len(line.mapping) > 1 THEN line.mapping[2] ELSE line.mapping[1],
        line.weight, TRUE)

\* the entries load() keeps
load(lines) ==
  LET accepted == SelectSeq(lines, Accepted)
  IN [n \in DOMAIN accepted |-> parseLine(accepted[n])]

\* the files "gpt->GPT:150%", "->ai:100%" and "gp->gpt:100%"
DictionaryFiles ==
  { << DictionaryLine(<<GPT_LOWER, GPT_UPPER>>, 150),
       DictionaryLine(<< <<>>, AI_LOWER >>, 100) >>,
    << DictionaryLine(<<GP_LOWER, GPT_LOWER>>, 100) >> }

EntryLists ==
  { load(lines) : lines \in DictionaryFiles } \cup
  { << Entry(GPT_LOWER, GPT_UPPER, 100, TRUE) >>,
    << Entry(GP_LOWER, AI_LOWER, 30, TRUE), Entry(GPT_LOWER, GPT_UPPER, 100, TRUE) >>,
    << Entry(GPT_LOWER, GPT_UPPER, 100, TRUE), Entry(GPT_LOWER, AI_LOWER, 100, TRUE) >>,
    << Entry(GPT_LOWER, AI_LOWER, 100, FALSE), Entry(GPT_LOWER, GPT_UPPER, 30, TRUE) >>,
    << Entry(GPT_LOWER, AI_LOWER, 100, TRUE) >>,
    << Entry(FORTY_TWO, AI_LOWER, 100, TRUE) >> }

Texts == {I_USE_GPT_DAILY, GPT_GPT, GPT_MIXED, FORTY_TWO}

\* new DictionaryManager(config) followed by load()
DictionaryLoaded(cfg, entries) ==
  dict = [config |-> cfg, isLoaded |-> cfg.enabled,
          entries |-> IF cfg.enabled THEN entries ELSE <<>>,
          pc |-> "idle", text |-> <<>>, resultText |-> <<>>, replacements |-> <<>>,
          sortedEntries |-> <<>>, k |-> 0, lastIndex |-> 0]

\* filter(e => e.enabled): the enabled entries in file order
FilterEnabled(entries) ==
  SelectSeq([n \in DOMAIN entries |-> n], LAMBDA n : entries[n].enabled)

\* Array.prototype.sort with (a, b) => b.weight - a.weight is stable: x goes
\* behind every entry that does not weigh less
RECURSIVE InsertByWeight(_, _, _)
InsertByWeight(entries, sorted, x) ==
  IF sorted = <<>> THEN <<x>>
  ELSE IF entries[Head(sorted)].weight >= entries[x].weight
         THEN <<Head(sorted)>> \o InsertByWeight(entries, Tail(sorted), x)
         ELSE <<x>> \o sorted

RECURSIVE SortByWeight(_, _)
SortByWeight(entries, ns) ==
  IF ns = <<>> THEN <<>>
  ELSE InsertByWeight(entries, SortByWeight(entries, SubSeq(ns, 1, Len(ns) - 1)),
                      ns[Len(ns)])

\* the enabled entries left in file order
SortedEntriesFileOrder(entries) == FilterEnabled(entries)

\* [...this.entries].filter(e => e.enabled).sort(...): the entries are
\* objects, named here by their place in this.entries
SortedEntries(entries) == SortByWeight(entries, FilterEnabled(entries))

\* regex.exec of the escaped term with the flags g and i: the offset of the
\* first match at or after lastIndex, -1 for null
RegexExec(term, str, lastIndex) ==
  LET found == {n \in lastIndex..(Len(str) - Len(term)) :
                  toLowerCase(substring(str, n, n + Len(term))) = toLowerCase(term)}
  IN IF found = {} THEN -1 ELSE CHOOSE n \in found : \A m \in found : n <= m

shouldReplace(weight, random) ==
  LET effectiveWeight == IF weight <= dict.config.maxWeight
                           THEN weight ELSE dict.config.maxWeight
  IN random < effectiveWeight \/ effectiveWeight >= 90

preserveCase(original, target) ==
  IF original = toUpperCase(original) THEN toUpperCase(target)
  ELSE IF /\ original[1] = toUpperChar(original[1])
          /\ slice(original, 1) = toLowerCase(slice(original, 1))
    THEN <<toUpperChar(target[1])>> \o toLowerCase(slice(target, 1))
  ELSE target

\* the for loop goes to the next entry, or applyDictionary returns
NextEntry(d) ==
  IF d.k > Len(d.sortedEntries) THEN [d EXCEPT !.pc = "done"] ELSE d

\* applyDictionary up to the first regex.exec
applyDictionary(text) ==
  /\ dict.pc \in {"idle", "done"}
  /\ dict' =
       IF ~dict.config.enabled \/ ~dict.isLoaded \/ Len(dict.entries) = 0
         THEN [dict EXCEPT !.pc = "done", !.text = text, !.resultText = text,
                           !.replacements = <<>>, !.sortedEntries = <<>>,
                           !.k = 0, !.lastIndex = 0]
         ELSE NextEntry([dict EXCEPT !.pc = "scan", !.text = text,
                                     !.resultText = text, !.replacements = <<>>,
                                     !.sortedEntries = SortedEntries(dict.entries),
                                     !.k = 1, !.lastIndex = 0])
  /\ last' = Step("applyDictionary", IF dict'.pc = "done" THEN "ok" ELSE "pending")
  /\ UNCHANGED <<sessionVars, gemini, clip, deviceVars>>

\* one turn of the while loop: regex.exec and what follows it
DictionaryScan ==
  /\ dict.pc = "scan"
  /\ LET entry == dict.entries[dict.sortedEntries[dict.k]]
         index == RegexExec(entry.original, dict.resultText, dict.lastIndex)
         matchText == substring(dict.resultText, index, index + Len(entry.original))
         similarity == calculateSimilarity(toLowerCase(matchText),
                                           toLowerCase(entry.original))
         replacement == preserveCase(matchText, entry.target)
     IN IF index = -1
          THEN dict' = NextEntry([dict EXCEPT !.k = @ + 1, !.lastIndex = 0])
          ELSE IF similarity >= dict.config.weightThreshold
            THEN \E random \in RandomDraws :
                   IF shouldReplace(entry.weight, random)
                     THEN /\ Len(dict.resultText) - Len(matchText) + Len(replacement)
                               <= MaxTextLen
                          /\ dict' =
                               [dict EXCEPT
                                  !.replacements =
                                     Append(@, [original |-> matchText,
                                                target |-> entry.target,
                                                position |-> index]),
                                  !.resultText =
                                     substring(@, 0, index) \o replacement
                                       \o slice(@, index + Len(matchText)),
                                  !.lastIndex = index + Len(replacement)]
                     ELSE dict' = [dict EXCEPT !.lastIndex = index + Len(matchText)]
            ELSE dict' = [dict EXCEPT !.lastIndex = index + Len(matchText)]
  /\ last' = Step("dictionaryScan", IF dict'.pc = "done" THEN "ok" ELSE "pending")
  /\ UNCHANGED <<sessionVars, gemini, clip, deviceVars>>

\* ------------------------------------------------------- ClipboardManager
\* the texts on the system clipboard; <<>> is the empty string
ClipTexts == {<<>>, <<1>>, <<2>>}

null == <<-1>>

\* what a call of clipboardy.read or clipboardy.write does
IoResults == {"ok", "err"}

\* new ClipboardManager(); read and write are the outcomes of the calls of
\* clipboardy made by the last operation
ClipboardConstructed(content) ==
  clip = [content |-> content, lastBackup |-> null, read |-> "none", write |-> "none"]

\* !this.lastBackup: null and the empty string
NoBackup(backup) == backup = null \/ backup = <<>>

hasBackup == clip.lastBackup # null

\* ClipboardManager.read
ClipboardRead ==
  /\ \E r \in IoResults :
       /\ clip' = [clip EXCEPT !.read = r, !.write = "none"]
       /\ last' = Step("read", r)
  /\ UNCHANGED <<sessionVars, gemini, dict, deviceVars>>

\* ClipboardManager.write(text, backup)
ClipboardWrite(text, backup) ==
  /\ \E r \in (IF backup THEN IoResults ELSE {"none"}), w \in IoResults :
       /\ clip' = [content |-> IF w = "ok" THEN text ELSE clip.content,
                   lastBackup |-> IF r = "ok" THEN clip.content ELSE clip.lastBackup,
                   read |-> r, write |-> w]
       /\ last' = Step(IF backup THEN "writeBackup" ELSE "write", w)
  /\ UNCHANGED <<sessionVars, gemini, dict, deviceVars>>

\* ClipboardManager.restore
ClipboardRestore ==
  /\ IF NoBackup(clip.lastBackup)
       THEN /\ clip' = [clip EXCEPT !.read = "none", !.write = "none"]
            /\ last' = Step("restore", "err")
       ELSE \E w \in IoResults :
              /\ clip' = [content |-> IF w = "ok" THEN clip.lastBackup ELSE clip.content,
                          lastBackup |-> IF w = "ok" THEN null ELSE clip.lastBackup,
                          read |-> "none", write |-> w]
              /\ last' = Step("restore", w)
  /\ UNCHANGED <<sessionVars, gemini, dict, deviceVars>>

\* ClipboardManager.clearBackup
ClipboardClearBackup ==
  /\ clip' = [clip EXCEPT !.lastBackup = null, !.read = "none", !.write = "none"]
  /\ last' = Step("clearBackup", "ok")
  /\ UNCHANGED <<sessionVars, gemini, dict, deviceVars>>

\* ----------------------------------------------------- MockHotkeyListener
\* Times are in hundredths of a second; Date.now() is hotkey.now, which is
\* never 0.  events is what the listener has emitted, in order.
HotkeyConstructed(enabled) ==
  hotkey = [config |-> [threshold |-> DefaultThreshold, enabled |-> enabled],
            listening |-> FALSE, pressTime |-> 0, now |-> 1, events |-> <<>>]

HotkeyEvent(type, timestamp, duration) ==
  [type |-> type, timestamp |-> timestamp, duration |-> duration]

\* MockHotkeyListener.start
HotkeyStart ==
  /\ IF hotkey.listening \/ ~hotkey.config.enabled
       THEN /\ last' = Step("hotkeyStart", "err")
            /\ UNCHANGED hotkey
       ELSE /\ hotkey' = [hotkey EXCEPT !.listening = TRUE]
            /\ last' = Step("hotkeyStart", "ok")
  /\ UNCHANGED <<sessionVars, gemini, dict, clip, recorder>>

\* MockHotkeyListener.stop
HotkeyStop ==
  /\ IF ~hotkey.listening
       THEN /\ last' = Step("hotkeyStop", "err")
            /\ UNCHANGED hotkey
       ELSE /\ hotkey' = [hotkey EXCEPT !.listening = FALSE]
            /\ last' = Step("hotkeyStop", "ok")
  /\ UNCHANGED <<sessionVars, gemini, dict, clip, recorder>>

simulatePress ==
  /\ Len(hotkey.events) < MaxEvents
  /\ IF ~hotkey.listening
       THEN /\ last' = Step("simulatePress", "none")
            /\ UNCHANGED hotkey
       ELSE /\ hotkey' = [hotkey EXCEPT
                            !.pressTime = hotkey.now,
                            !.events = Append(@, HotkeyEvent("press", hotkey.now, 0))]
            /\ last' = Step("simulatePress", "press")
  /\ UNCHANGED <<sessionVars, gemini, dict, clip, recorder>>

\* a press held for exactly the threshold does not count
IsLongPressStrict(duration) == duration > hotkey.config.threshold

IsLongPress(duration) == duration >= hotkey.config.threshold

simulateRelease ==
  /\ Len(hotkey.events) + 2 <= MaxEvents
  /\ IF ~hotkey.listening \/ hotkey.pressTime = 0
       THEN /\ last' = Step("simulateRelease", "none")
            /\ UNCHANGED hotkey
       ELSE LET releaseTime == hotkey.now
                duration == releaseTime - hotkey.pressTime
            IN /\ hotkey' =
                    [hotkey EXCEPT
                       !.pressTime = 0,
                       !.events =
                          @ \o <<HotkeyEvent("release", releaseTime, duration)>>
                            \o (IF IsLongPress(duration)
                                  THEN <<HotkeyEvent("longPress", releaseTime, duration)>>
                                  ELSE <<>>)]
               /\ last' = Step("simulateRelease",
                               IF IsLongPress(duration) THEN "longPress" ELSE "release")
  /\ UNCHANGED <<sessionVars, gemini, dict, clip, recorder>>

\* time passes
HotkeyTick ==
  /\ hotkey.now < MaxClock
  /\ hotkey' = [hotkey EXCEPT !.now = @ + 1]
  /\ last' = Step("tick", "ok")
  /\ UNCHANGED <<sessionVars, gemini, dict, clip, recorder>>

\* ------------------------------------------------------ MockAudioRecorder
\* timers are the setInterval timers that run, by id; interval is the one
\* this.interval refers to, 0 for null; idleTimers counts the pending
\* setTimeout(() => setState('idle'), 100)
RecorderConstructed ==
  recorder = [state |-> "idle", interval |-> 0, timers |-> {}, idleTimers |-> 0,
              chunkSequence |-> 0]

\* setInterval(() => this.generateMockChunk(), 1000)
SetInterval(rec) ==
  LET id == CHOOSE n \in 1..MaxIntervals : n \notin rec.timers
  IN [rec EXCEPT !.interval = id, !.timers = @ \cup {id}]

\* if (this.interval) { clearInterval(this.interval); this.interval = null }
ClearInterval(rec) ==
  [rec EXCEPT !.interval = 0, !.timers = @ \ {rec.interval}]

\* MockAudioRecorder.start
RecorderStart ==
  /\ IF recorder.state = "recording"
       THEN /\ last' = Step("recorderStart", "err")
            /\ UNCHANGED recorder
       ELSE /\ Cardinality(recorder.timers) < MaxIntervals
            /\ recorder' = SetInterval([recorder EXCEPT !.state = "recording",
                                                        !.chunkSequence = 0])
            /\ last' = Step("recorderStart", "ok")
  /\ UNCHANGED <<sessionVars, gemini, dict, clip, hotkey>>

\* MockAudioRecorder.stop
RecorderStop ==
  /\ IF recorder.state \notin {"recording", "paused"}
       THEN /\ last' = Step("recorderStop", "err")
            /\ UNCHANGED recorder
       ELSE /\ recorder.idleTimers < MaxIdleTimers
            /\ recorder' = [ClearInterval(recorder) EXCEPT !.state = "stopped",
                                                           !.idleTimers = @ + 1]
            /\ last' = Step("recorderStop", "ok")
  /\ UNCHANGED <<sessionVars, gemini, dict, clip, hotkey>>

\* MockAudioRecorder.pause
RecorderPause ==
  /\ IF recorder.state # "recording"
       THEN /\ last' = Step("recorderPause", "err")
            /\ UNCHANGED recorder
       ELSE /\ recorder' = [ClearInterval(recorder) EXCEPT !.state = "paused"]
            /\ last' = Step("recorderPause", "ok")
  /\ UNCHANGED <<sessionVars, gemini, dict, clip, hotkey>>

\* MockAudioRecorder.resume
RecorderResume ==
  /\ IF recorder.state # "paused"
       THEN /\ last' = Step("recorderResume", "err")
            /\ UNCHANGED recorder
       ELSE /\ Cardinality(recorder.timers) < MaxIntervals
            /\ recorder' = SetInterval([recorder EXCEPT !.state = "recording"])
            /\ last' = Step("recorderResume", "ok")
  /\ UNCHANGED <<sessionVars, gemini, dict, clip, hotkey>>

\* an interval timer fires: generateMockChunk emits a data event
generateMockChunk(id) ==
  /\ id \in recorder.timers
  /\ recorder.chunkSequence < MaxChunks
  /\ recorder' = [recorder EXCEPT !.chunkSequence = @ + 1]
  /\ last' = Step("data", "ok")
  /\ UNCHANGED <<sessionVars, gemini, dict, clip, hotkey>>

\* the timeout of stop fires: setState('idle')
RecorderIdleTimer ==
  /\ recorder.idleTimers > 0
  /\ recorder' = [recorder EXCEPT !.state = "idle", !.idleTimers = @ - 1]
  /\ last' = Step("idleTimer", "ok")
  /\ UNCHANGED <<sessionVars, gemini, dict, clip, hotkey>>

\* ---------------------------------------------------------- specification
\* new SegmentProcessor(gemini, dictionary, clipboard, config)
ProcessorConstructed(maxConcurrent, correction, dictionary, output) ==
  /\ config = [maxConcurrent |-> maxConcurrent,
               enableCorrection |-> correction,
               enableDictionary |-> dictionary,
               enableAutoOutput |-> output]
  /\ activeSegments = {}
  /\ completedSegments = <<>>
  /\ processorSessionSegments = <<>>
  /\ segs = <<>>
  /\ calls = <<>>

\* new SessionManager(gemini, dictionary, clipboard, config)
ManagerConstructed(cfg) ==
  /\ currentSessionId = 0
  /\ currentState = "idle"
  /\ listenerState = "idle"
  /\ currentMode = "batch"
  /\ sessionConfig = cfg
  /\ sessionSegments = <<>>
  /\ sessionAudioBuffer = <<>>
  /\ ProcessorConstructed(DefaultMaxConcurrent, cfg.enableCorrection,
                          cfg.enableDictionary, cfg.autoOutputEnabled)
  /\ nextSession = 1
  /\ last = Step("constructor", "ok")

Constructed(cfg) ==
  /\ ManagerConstructed(cfg)
  /\ resetTimers = 0

\* the services as main() constructs them
DefaultDictionaryConfig ==
  [enabled |-> TRUE, weightThreshold |-> DefaultWeightThreshold,
   maxWeight |-> DefaultMaxWeight]

\* createHotkeyListener() and createAudioRecorder()
DevicesConstructed ==
  /\ HotkeyConstructed(TRUE)
  /\ RecorderConstructed

ServicesConstructed ==
  /\ GeminiConstructed(DefaultMaxRetries)
  /\ DictionaryLoaded(DefaultDictionaryConfig, <<>>)
  /\ ClipboardConstructed(<<>>)
  /\ DevicesConstructed

Init ==
  /\ \E cfg \in ManagerConfigs : Constructed(cfg)
  /\ errorListener \in BOOLEAN
  /\ ServicesConstructed

Next ==
  \/ \E mode \in Modes : StartSession(mode)
  \/ \E audioSegment \in AudioSegments : AddAudioSegment(audioSegment)
  \/ EndSession
  \/ CancelSession
  \/ ResetTimer
  \/ \E i \in 1..MaxCalls : TranscribeDone(i)
  \/ \E i \in 1..MaxCalls : CorrectDone(i)
  \/ \E i \in 1..MaxCalls : OutputDone(i)
  \/ \E i \in 1..MaxCalls : AddResume(i)
  \/ \E i \in 1..MaxCalls : EndResume(i)
  \/ \E i \in 1..MaxCalls : EndComplete(i)

Spec == Init /\ [][Next]_vars

\* ------------------- a session manager that has had a session before
\* an empty batch session has completed and cancelSession was called before
\* its deferred reset fired: every field is as constructed, and that timer
\* is still pending
InitLateReset ==
  /\ \E cfg \in ManagerConfigs : ManagerConstructed(cfg)
  /\ resetTimers = 1
  /\ errorListener = TRUE
  /\ ServicesConstructed

SpecLateReset == InitLateReset /\ [][Next]_vars

\* --------------------------------------- the pipeline used on its own
\* (createSegmentProcessor): the caller passes the session configuration
ConcurrencyLimits == {1, 2}

processSegment(audioSegment, cfg) ==
  /\ Submit("proc", audioSegment, cfg)
  /\ last' = Step("processSegment", "pending")
  /\ UNCHANGED <<managerVars, completedSegments, fixedVars, nextSession,
                 sessionConfig, resetTimers>>
  /\ Collect(Submitted(audioSegment))

\* processSegment's promise resolves in the caller
processSegmentReturn(i) ==
  /\ i \in DOMAIN calls
  /\ calls[i].kind = "proc"
  /\ calls[i].pc = "resume"
  /\ calls' = RemoveAt(calls, i)
  /\ last' = Step("processSegment", IF calls[i].ok THEN "ok" ELSE "err")
  /\ UNCHANGED <<managerVars, processorVars, fixedVars, nextSession, sessionConfig,
                 resetTimers>>
  /\ Collect(segs)

\* SegmentProcessor.startSession
processorStartSession ==
  /\ processorSessionSegments' = <<>>
  /\ activeSegments' = {}
  /\ last' = Step("processorStartSession", "ok")
  /\ UNCHANGED <<managerVars, completedSegments, calls, fixedVars, nextSession,
                 sessionConfig, resetTimers>>
  /\ Collect(segs)

clearCompleted ==
  /\ completedSegments' = <<>>
  /\ last' = Step("clearCompleted", "ok")
  /\ UNCHANGED <<managerVars, activeSegments, processorSessionSegments, calls,
                 fixedVars, nextSession, sessionConfig, resetTimers>>
  /\ Collect(segs)

InitPipeline ==
  /\ \E m \in ConcurrencyLimits, c, d, o \in BOOLEAN : ProcessorConstructed(m, c, d, o)
  /\ currentSessionId = 0
  /\ currentState = "idle"
  /\ listenerState = "idle"
  /\ currentMode = "batch"
  /\ sessionConfig = [enableDictionary |-> TRUE, enableCorrection |-> TRUE,
                      autoOutputEnabled |-> TRUE,
                      minSegmentDuration |-> DefaultMinSegmentDuration]
  /\ sessionSegments = <<>>
  /\ sessionAudioBuffer = <<>>
  /\ resetTimers = 0
  /\ nextSession = 1
  /\ errorListener = TRUE
  /\ ServicesConstructed
  /\ last = Step("constructor", "ok")

NextPipeline ==
  \/ \E cfg \in ManagerConfigs :
       processSegment([audioData |-> <<1>>, duration |-> 2, isFinal |-> TRUE], cfg)
  \/ processorStartSession
  \/ clearCompleted
  \/ \E i \in 1..MaxCalls : TranscribeDone(i)
  \/ \E i \in 1..MaxCalls : CorrectDone(i)
  \/ \E i \in 1..MaxCalls : OutputDone(i)
  \/ \E i \in 1..MaxCalls : processSegmentReturn(i)

SpecPipeline == InitPipeline /\ [][NextPipeline]_vars

\* --------------------------------------- the gateway client on its own
DefaultManagerConfig ==
  [enableDictionary |-> TRUE, enableCorrection |-> TRUE, autoOutputEnabled |-> TRUE,
   minSegmentDuration |-> DefaultMinSegmentDuration]

InitGemini ==
  /\ \E maxRetries \in 0..MaxRetries : GeminiConstructed(maxRetries)
  /\ DictionaryLoaded(DefaultDictionaryConfig, <<>>)
  /\ ClipboardConstructed(<<>>)
  /\ Constructed(DefaultManagerConfig)
  /\ DevicesConstructed
  /\ errorListener = TRUE

NextGemini ==
  \/ \E r \in 1..MaxRequests, audio \in Payloads : transcribeAudio(r, audio)
  \/ \E r \in 1..MaxRequests : GenerateContentDone(r)
  \/ \E r \in 1..MaxRequests : DelayDone(r)

SpecGemini == InitGemini /\ [][NextGemini]_vars

\* ------------------------------------------ the dictionary on its own
InitDictionary ==
  /\ \E cfg \in DictionaryConfigs, entries \in EntryLists :
       DictionaryLoaded(cfg, entries)
  /\ GeminiConstructed(DefaultMaxRetries)
  /\ ClipboardConstructed(<<>>)
  /\ Constructed(DefaultManagerConfig)
  /\ DevicesConstructed
  /\ errorListener = TRUE

NextDictionary ==
  \/ \E text \in Texts : applyDictionary(text)
  \/ DictionaryScan

SpecDictionary == InitDictionary /\ [][NextDictionary]_vars

\* ------------------------------------------- the clipboard on its own
InitClipboard ==
  /\ \E content \in ClipTexts : ClipboardConstructed(content)
  /\ GeminiConstructed(DefaultMaxRetries)
  /\ DictionaryLoaded(DefaultDictionaryConfig, <<>>)
  /\ Constructed(DefaultManagerConfig)
  /\ DevicesConstructed
  /\ errorListener = TRUE

NextClipboard ==
  \/ ClipboardRead
  \/ \E text \in ClipTexts, backup \in BOOLEAN : ClipboardWrite(text, backup)
  \/ ClipboardRestore
  \/ ClipboardClearBackup

SpecClipboard == InitClipboard /\ [][NextClipboard]_vars

\* ------------------------------------- the hotkey listener on its own
InitHotkey ==
  /\ \E enabled \in BOOLEAN : HotkeyConstructed(enabled)
  /\ RecorderConstructed
  /\ GeminiConstructed(DefaultMaxRetries)
  /\ DictionaryLoaded(DefaultDictionaryConfig, <<>>)
  /\ ClipboardConstructed(<<>>)
  /\ Constructed(DefaultManagerConfig)
  /\ errorListener = TRUE

NextHotkey ==
  \/ HotkeyStart
  \/ HotkeyStop
  \/ simulatePress
  \/ simulateRelease
  \/ HotkeyTick

SpecHotkey == InitHotkey /\ [][NextHotkey]_vars

\* -------------------------------------- the audio recorder on its own
InitRecorder ==
  /\ DevicesConstructed
  /\ GeminiConstructed(DefaultMaxRetries)
  /\ DictionaryLoaded(DefaultDictionaryConfig, <<>>)
  /\ ClipboardConstructed(<<>>)
  /\ Constructed(DefaultManagerConfig)
  /\ errorListener = TRUE

NextRecorder ==
  \/ RecorderStart
  \/ RecorderStop
  \/ RecorderPause
  \/ RecorderResume
  \/ \E id \in 1..MaxIntervals : generateMockChunk(id)
  \/ RecorderIdleTimer

SpecRecorder == InitRecorder /\ [][NextRecorder]_vars

\* ================================================================ claims
PipelinePcs == {"transcribe", "correct", "output"}

\* the segments registered by the step
NewSegments == (DOMAIN segs') \ (DOMAIN segs)

\* the endSession calls whose continuation after waitForCompletion the step is
Completing == {i \in DOMAIN calls : calls[i].pc = "wait" /\ calls' = RemoveAt(calls, i)}

\* C1: startSession succeeds only when the state is idle, and moves it to
\* recording; called in any other state it returns an error Result and
\* leaves the session id, mode, audio buffer, segment list and state unchanged.
C1_StartOnlyWhenIdle ==
  [][last'.op = "startSession" =>
       IF currentState = "idle"
         THEN last'.res = "ok" /\ currentState' = "recording"
         ELSE last'.res = "err" /\ UNCHANGED managerVars]_vars

C1_Witness ==
  /\ last = Step("startSession", "err")
  /\ currentState = "recording"
  /\ sessionAudioBuffer # <<>>

\* C2: addAudioSegment called in a state other than recording returns an
\* error Result, buffers nothing and submits nothing to the pipeline.
C2_AddOnlyWhenRecording ==
  [][(last'.op = "addAudioSegment" /\ currentState # "recording") =>
       /\ last'.res = "err"
       /\ UNCHANGED <<sessionAudioBuffer, processorVars, segs, calls>>]_vars

C2_Witness ==
  /\ last = Step("addAudioSegment", "err")
  /\ currentState = "processing"

\* C3: the session state changes only along idle->recording,
\* recording->processing, processing->completed, recording->error,
\* processing->error and non-idle->idle; endSession is accepted only in
\* recording, so there is no completed->processing or error->processing step.
C3_Edges ==
  {<<"idle", "recording">>, <<"recording", "processing">>,
   <<"processing", "completed">>, <<"recording", "error">>,
   <<"processing", "error">>} \cup {<<s, "idle">> : s \in States \ {"idle"}}

C3_OnlySpecifiedEdges ==
  [][currentState' # currentState => <<currentState, currentState'>> \in C3_Edges]_vars

\* C4: in a batch session addAudioSegment never invokes the pipeline; only
\* endSession does, with exactly one segment whose audio is the buffered
\* payloads joined in the order they were added, and with no segment at all
\* when nothing was buffered.
RECURSIVE C4_Joined(_)
C4_Joined(bufs) ==
  IF bufs = <<>> THEN <<>>
  ELSE C4_Joined(SubSeq(bufs, 1, Len(bufs) - 1)) \o bufs[Len(bufs)]

C4_BatchFlushedOnce ==
  [][currentMode = "batch" =>
       /\ last'.op = "addAudioSegment" => UNCHANGED <<processorVars, segs, calls>>
       /\ NewSegments # {} => last'.op = "endSession"
       /\ (last'.op = "endSession" /\ last'.res = "pending") =>
            IF sessionAudioBuffer = <<>>
              THEN NewSegments = {} /\ UNCHANGED processorVars
              ELSE \E s \in NewSegments :
                     /\ NewSegments = {s}
                     /\ segs'[s].audio = C4_Joined(sessionAudioBuffer)
                     /\ Len(calls') = Len(calls) + 1]_vars

C4_Witness ==
  /\ last = Step("endSession", "pending")
  /\ currentMode = "batch"
  /\ sessionAudioBuffer = << <<1>>, <<2>> >>
  /\ \E s \in DOMAIN segs : segs[s].audio = <<1, 2>> /\ s \in activeSegments

\* C5: endSession does not reach completed while a segment submitted in that
\* session is still in the pipeline, and once they have all finished the
\* session reaches completed (the call does not end in the error state).
C5_CompletesOnceDrained ==
  [][/\ last'.op = "endComplete" =>
          \A i \in Completing : \A j \in DOMAIN calls :
             calls[j].sid = calls[i].sid => calls[j].pc \notin PipelinePcs
     /\ last'.op = "endResume" => (last'.res = "pending" /\ currentState' # "error")]_vars

\* C6: after cancelSession the state is idle and the buffered audio and the
\* segment list are empty, and no sessionComplete event is emitted for the
\* cancelled session, also when an endSession call of it was suspended.
C6_CancelIsFinal ==
  [][/\ last'.op = "cancelSession" =>
          (currentState' = "idle" /\ sessionAudioBuffer' = <<>>
             /\ sessionSegments' = <<>>)
     /\ last'.op = "endComplete" => \A i \in Completing : ~calls[i].cancelled]_vars

\* C7: a segment that was in the pipeline when its session was cancelled goes
\* through no later stage, and is not added to the session's segment list nor
\* to the pipeline's completed list.
C7_CancelDiscardsInFlight ==
  [][\A i \in DOMAIN calls :
       (calls[i].cancelled /\ calls[i].pc \in PipelinePcs) =>
         /\ calls[i].seg \in DOMAIN segs' => segs'[calls[i].seg] = segs[calls[i].seg]
         /\ calls[i].seg \notin Range(completedSegments')
         /\ calls[i].seg \notin Range(sessionSegments')]_vars

\* C8: the finalText of the session statistics is the final texts of the
\* session's segments joined in submission order, whatever the order in which
\* the segments finished.
C8_SubmissionOrder ==
  SelectSeq(processorSessionSegments, LAMBDA s : InSeq(s, completedSegments))

C8_TranscriptInSubmissionOrder ==
  [][last'.op = "endComplete" =>
       generateStats.finalText = JoinFinalText(C8_SubmissionOrder)]_vars

\* C9: the number of segments in the active-segment set never exceeds the
\* configured maxConcurrent.
C9_BoundedConcurrency == Cardinality(activeSegments) <= config.maxConcurrent

\* C10: for every segment the stages run in the order transcribe, dictionary,
\* correction, finalText, output, each at most once; dictionary, correction
\* and output are skipped exactly when disabled in the pipeline configuration
\* or in the session configuration; the sink is not written before finalText
\* is assigned.
C10_Rank(stage) ==
  CASE stage = "transcribe" -> 1
    [] stage = "dictionary" -> 2
    [] stage = "correct"    -> 3
    [] stage = "final"      -> 4
    [] stage = "output"     -> 5

C10_StagesInOrder ==
  /\ \A s \in DOMAIN segs :
       \A a, b \in DOMAIN segs[s].stages :
          a < b => C10_Rank(segs[s].stages[a]) < C10_Rank(segs[s].stages[b])
  /\ \A i \in DOMAIN calls :
       LET c == calls[i]
           st == Range(segs[c.seg].stages)
       IN c.seg # 0 =>
            /\ segs[c.seg].rawTranscript # undefined =>
                 /\ "dictionary" \in st <=>
                      (config.enableDictionary /\ c.cfg.enableDictionary)
                 /\ "correct" \in st <=>
                      (config.enableCorrection /\ c.cfg.enableCorrection)
            /\ "final" \in st =>
                 ("output" \in st <=>
                    (config.enableAutoOutput /\ c.cfg.autoOutputEnabled))
            /\ "output" \in st => "final" \in st
            /\ c.pc = "output" => "final" \in st

C10_Witness ==
  /\ config.enableAutoOutput /\ config.enableDictionary /\ ~config.enableCorrection
  /\ \E s \in Range(completedSegments) :
       segs[s].stages = <<"transcribe", "dictionary", "final", "output">>
  /\ \E i \in DOMAIN calls :
       /\ calls[i].pc = "resume"
       /\ calls[i].ok
       /\ ~calls[i].cfg.enableDictionary
       /\ segs[calls[i].seg].stages = <<"transcribe", "final">>

\* the pipeline calls whose await the step resumes
Resumed(pcs) == {i \in DOMAIN calls : calls[i].pc \in pcs /\ calls'[i] # calls[i]}

\* C11: when the transcription or the correction of a segment fails, the
\* segment ends with status failed and the error message captured,
\* processSegment returns an error Result, and no later stage runs for it.
C11_StageFailureFailsSegment ==
  [][(last'.op \in {"transcribeDone", "correctDone"} /\ last'.res = "err") =>
       \A i \in Resumed({"transcribe", "correct"}) :
          /\ calls'[i].pc = "resume"
          /\ ~calls'[i].ok
          /\ segs'[calls[i].seg].status = "failed"
          /\ segs'[calls[i].seg].errorMessage
          /\ segs'[calls[i].seg].stages = segs[calls[i].seg].stages]_vars

\* C12: when the write to the output sink gives an error, the segment does
\* not fail: processSegment returns success with the finalText assigned
\* before the write, and the segment is in the completed list and no longer
\* in the active set.
C12_OutputFailureTolerated ==
  [][(last'.op = "outputDone" /\ last'.res = "err") =>
       \A i \in Resumed({"output"}) :
          LET s == calls[i].seg IN
          /\ calls'[i].pc = "resume"
          /\ calls'[i].ok
          /\ calls'[i].text = segs[s].finalText
          /\ segs'[s].finalText = segs[s].finalText
          /\ segs'[s].status # "failed"
          /\ ~segs'[s].errorMessage
          /\ s \notin activeSegments'
          /\ completedSegments' = Append(completedSegments, s)]_vars

C12_Witness ==
  /\ last = Step("outputDone", "err")
  /\ \E i \in DOMAIN calls :
       /\ calls[i].pc = "resume"
       /\ calls[i].ok
       /\ calls[i].text = <<1>>
       /\ segs[calls[i].seg].finalText = <<1>>
       /\ InSeq(calls[i].seg, completedSegments)

\* C13: in a realtime session with an error listener, a failed segment does
\* not change the session state and addAudioSegment resolves normally; a
\* later addAudioSegment in recording is still submitted to the pipeline; and
\* endSession of that session reaches completed with failureCount equal to
\* the number of the session's failed segments.
C13_FailedSegments ==
  Cardinality({n \in DOMAIN processorSessionSegments :
                 segs[processorSessionSegments[n]].status = "failed"})

C13_StreamingFailureIsolated ==
  [][(errorListener /\ currentMode = "realtime") =>
       /\ (last'.op = "addResume"
             /\ \E i \in DOMAIN calls : calls' = RemoveAt(calls, i) /\ ~calls[i].ok) =>
            (last'.res = "ok" /\ UNCHANGED managerVars)
       /\ (last'.op = "addAudioSegment" /\ currentState = "recording") =>
            (last'.res = "pending" /\ Cardinality(NewSegments) = 1
               /\ NewSegments \subseteq activeSegments')
       /\ (last'.op = "endComplete" /\ currentSessionId # 0
             /\ \A i \in Completing : calls[i].sid = currentSessionId) =>
            (currentState' = "completed"
               /\ generateStats.failureCount = C13_FailedSegments)]_vars

C13_Witness ==
  /\ last = Step("endComplete", "ok")
  /\ errorListener
  /\ currentMode = "realtime"
  /\ currentState = "completed"
  /\ Len(processorSessionSegments) = 2
  /\ segs[processorSessionSegments[1]].status = "failed"
  /\ segs[processorSessionSegments[2]].status # "failed"
  /\ sessionSegments = <<processorSessionSegments[2]>>
  /\ completedSegments = processorSessionSegments

\* C14: in a batch session whose synthetic segment fails, endSession goes on
\* to completed and returns statistics; it does not end in the error state.
C14_Resumed ==
  {i \in DOMAIN calls :
     /\ calls[i].kind = "end"
     /\ calls[i].pc = "resume"
     /\ (calls' = RemoveAt(calls, i) \/ calls' = [calls EXCEPT ![i].pc = "wait"])}

C14_BatchFailureStillCompletes ==
  [][last'.op = "endResume" =>
       \A i \in C14_Resumed :
          ~calls[i].ok => (calls' = [calls EXCEPT ![i].pc = "wait"]
                             /\ currentState' # "error")]_vars

\* C15: a transcription request is attempted at most maxRetries times; when
\* every attempt has failed the request returns an error Result, and after
\* it has returned no attempt is made for it any more.
C15_AttemptsBounded ==
  [][\A r \in 1..MaxRequests :
       /\ gemini'.req[r].attempts <= gemini'.maxRetries
       /\ (gemini'.req[r].pc = "done" /\ gemini'.req[r].lastResponse # "text") =>
            gemini'.req[r].result = "err"
       /\ (gemini.req[r].pc = "done" /\ gemini'.req[r] # gemini.req[r]) =>
            (last'.op = "transcribeAudio" /\ gemini'.req[r].attempts <= 1)]_vars

C15_Witness ==
  /\ gemini.maxRetries = 3
  /\ \E r \in 1..MaxRequests :
       /\ gemini.req[r].pc = "done"
       /\ gemini.req[r].result = "err"
       /\ gemini.req[r].attempts = 3
       /\ gemini.req[r].lastError = "transient"
       /\ gemini.req[r].lastResponse = "empty"

\* C16: an attempt that fails with an authorization error is the last attempt
\* of its request, and the request returns an error Result right away.
C16_AuthNotRetried ==
  \A r \in 1..MaxRequests :
     gemini.req[r].lastResponse = "auth" =>
       (gemini.req[r].pc = "done" /\ gemini.req[r].result = "err")

\* C17: no segment shorter than the session's minSegmentDuration is handed to
\* the pipeline, in realtime mode and by a batch endSession.
C17_NoShortSegmentProcessed ==
  \A s \in DOMAIN segs : segs[s].duration >= sessionConfig.minSegmentDuration

\* C18: with the default dictionary configuration the entry gpt -> GPT of
\* weight 100% turns "i use gpt daily" into "i use GPT daily" on every run,
\* with one replacement recorded at offset 6.
C18_FullWeightAlwaysReplaces ==
  (/\ dict.pc = "done"
   /\ dict.config = DefaultDictionaryConfig
   /\ dict.entries = << Entry(GPT_LOWER, GPT_UPPER, 100, TRUE) >>
   /\ dict.text = I_USE_GPT_DAILY) =>
     /\ dict.resultText = I_USE_GPT_DAILY_REPLACED
     /\ dict.replacements =
          << [original |-> GPT_LOWER, target |-> GPT_UPPER, position |-> 6] >>

\* C19: applyDictionary goes through the enabled entries by descending
\* weight, entries of equal weight in file order, each entry after the ones
\* before it; a replacement is only made for an enabled entry.
C19_EntriesByWeight ==
  [][dict'.pc # "idle" =>
       LET se == dict'.sortedEntries
           en == {n \in DOMAIN dict'.entries : dict'.entries[n].enabled}
       IN /\ dict'.isLoaded => (Range(se) = en /\ Len(se) = Cardinality(en))
          /\ \A a, b \in DOMAIN se :
               a < b => \/ dict'.entries[se[a]].weight > dict'.entries[se[b]].weight
                        \/ /\ dict'.entries[se[a]].weight = dict'.entries[se[b]].weight
                           /\ se[a] < se[b]
          /\ (dict.pc = "scan" /\ dict'.pc = "scan") => dict'.k >= dict.k
          /\ Len(dict'.replacements) > Len(dict.replacements) =>
               LET e == dict.entries[dict.sortedEntries[dict.k]]
               IN /\ dict'.k = dict.k
                  /\ e.enabled
                  /\ dict'.replacements[Len(dict'.replacements)].target = e.target]_vars

C19_Witness ==
  /\ dict.pc = "done"
  /\ Len(dict.entries) = 2
  /\ dict.entries[1].weight < dict.entries[2].weight
  /\ dict.sortedEntries = <<2, 1>>
  /\ Len(dict.replacements) = 2
  /\ dict.replacements[1].target = GPT_UPPER
  /\ dict.replacements[2].target = AI_LOWER

\* C20: the position of every recorded replacement is the offset of the
\* replaced occurrence in the input text of the call.
C20_PositionsInOriginal ==
  \A n \in DOMAIN dict.replacements :
     LET r == dict.replacements[n]
     IN toLowerCase(substring(dict.text, r.position, r.position + Len(r.original)))
          = toLowerCase(r.original)

\* C21: preserveCase gives the target in upper case for a span that is all
\* upper-case letters, capitalized for a capitalized span, and verbatim for
\* every other span: lower case, mixed case, or without any cased letter.
C21_HasCased(str) == \E n \in DOMAIN str : toUpperChar(str[n]) # toLowerChar(str[n])

C21_Style(original, target) ==
  IF C21_HasCased(original) /\ original = toUpperCase(original)
    THEN toUpperCase(target)
  ELSE IF /\ original # <<>>
          /\ original[1] # toLowerChar(original[1])
          /\ slice(original, 1) = toLowerCase(slice(original, 1))
    THEN <<toUpperChar(target[1])>> \o toLowerCase(slice(target, 1))
  ELSE target

C21_CaseStyleFollowsSpan ==
  [][Len(dict'.replacements) > Len(dict.replacements) =>
       LET r == dict'.replacements[Len(dict'.replacements)]
       IN substring(dict'.resultText, r.position, dict'.lastIndex)
            = C21_Style(r.original, r.target)]_vars

\* C22: in a realtime session that gets the interim segment "hello wor" and
\* then the final segment "hello world.", both transcribed, the transcript of
\* the session is the text of the final segment: the final text takes the
\* place of the interim text and is not appended to it.
C22_FinalSupersedesInterim ==
  (/\ last = Step("endComplete", "ok")
   /\ currentMode = "realtime"
   /\ currentSessionId # 0
   /\ Len(processorSessionSegments) = 2
   /\ Len(SessionSegs) = 2
   /\ ~segs[processorSessionSegments[1]].isFinal
   /\ segs[processorSessionSegments[2]].isFinal
   /\ \A n \in 1..2 : segs[processorSessionSegments[n]].finalText # undefined) =>
     generateStats.finalText = segs[processorSessionSegments[2]].finalText

\* C23: the finalText of a segment is the corrected text when the correction
\* is enabled and succeeds, the text after the dictionary when the correction
\* fails or is disabled, and it is never undefined when processSegment
\* returns success.
C23_CorrectedTexts(text) ==
  {res.data : res \in {x \in CorrectResults(text) : x.success}}

C23_FinalTextDefined ==
  [][/\ last'.op = "correctDone" =>
          \A i \in Resumed({"correct"}) :
             IF last'.res = "ok"
               THEN segs'[calls[i].seg].finalText \in C23_CorrectedTexts(calls[i].text)
               ELSE segs'[calls[i].seg].finalText = calls[i].text
     /\ (last'.op = "transcribeDone" /\ last'.res = "ok") =>
          \A i \in Resumed({"transcribe"}) :
             calls'[i].pc # "correct" =>
               segs'[calls[i].seg].finalText = segs'[calls[i].seg].processedTranscript
     /\ \A i \in DOMAIN calls' :
          (calls'[i].pc = "resume" /\ calls'[i].ok) =>
            segs'[calls'[i].seg].finalText # undefined]_vars

\* C24: the statistics of a session count every segment once: successCount
\* is the number of segments processed with success, failureCount the number
\* of failed ones, and segmentCount is their sum, whatever stages are enabled.
C24_Errors(ids) == Cardinality({n \in DOMAIN ids : segs[ids[n]].errorMessage})

C24_CountsAddUp ==
  [][(last'.op = "endComplete" /\ currentSessionId # 0
        /\ \A i \in Completing : calls[i].sid = currentSessionId) =>
       /\ generateStats.failureCount = C24_Errors(SessionSegs)
       /\ generateStats.successCount = Len(SessionSegs) - C24_Errors(SessionSegs)
       /\ generateStats.segmentCount
            = generateStats.successCount + generateStats.failureCount]_vars

\* C25: the status of a segment only moves forward through pending,
\* transcribing, processing, outputting, completed, or jumps to failed; when
\* processSegment returns success the status is completed, when it returns an
\* error it is failed; a completed or failed segment never changes status.
C25_Rank(status) ==
  CASE status = "pending" -> 0
    [] status = "transcribing" -> 1
    [] status = "processing" -> 2
    [] status = "outputting" -> 3
    [] status = "completed" -> 4
    [] OTHER -> 5

C25_StatusMonotone ==
  [][/\ \A s \in (DOMAIN segs) \cap (DOMAIN segs') :
          /\ (segs'[s].status = "failed"
                \/ C25_Rank(segs'[s].status) >= C25_Rank(segs[s].status))
          /\ segs[s].status \in {"completed", "failed"} =>
               segs'[s].status = segs[s].status
     /\ \A i \in DOMAIN calls' :
          calls'[i].pc = "resume" =>
            segs'[calls'[i].seg].status
              = (IF calls'[i].ok THEN "completed" ELSE "failed")]_vars

\* C26: after endSession has ended in the error state the manager goes back
\* to idle by itself: a deferred reset is pending, or an endSession still
\* running will schedule one.
C26_ErrorStateResets ==
  currentState = "error" => (resetTimers > 0 \/ PendingEnds > 0)

\* C27: for every content c of the clipboard, the empty string included,
\* after write(t, true) has backed c up, hasBackup() is true and restore()
\* writes c back, returns success and clears the backup; restore() without a
\* backup returns an error and writes nothing.
C27_BackupRestores ==
  [][/\ (last'.op = "writeBackup" /\ clip'.read = "ok") =>
          (clip'.lastBackup = clip.content /\ clip'.lastBackup # null)
     /\ (last'.op = "restore" /\ hasBackup) =>
          /\ clip'.write # "none"
          /\ clip'.write = "ok" =>
               (last'.res = "ok" /\ clip'.content = clip.lastBackup
                  /\ clip'.lastBackup = null)
     /\ (last'.op = "restore" /\ ~hasBackup) =>
          (last'.res = "err" /\ clip'.write = "none"
             /\ clip'.content = clip.content)]_vars

\* C28: while a realtime session is recording, no single update makes its
\* transcript shorter by more than the rollback window commitRepairChars,
\* whatever window is configured.
C28_RepairWindows == {0, 1}

RECURSIVE C28_Join(_, _)
C28_Join(ids, sg) ==
  IF ids = <<>> THEN <<>>
  ELSE LET t == sg[Head(ids)].finalText
       IN (IF t = undefined THEN <<>> ELSE t) \o C28_Join(Tail(ids), sg)

C28_Committed(completed, session, sg) ==
  C28_Join(SelectSeq(completed, LAMBDA s : InSeq(s, session)), sg)

C28_BoundedRollback ==
  [][(currentState = "recording" /\ currentMode = "realtime"
        /\ last'.op \notin {"startSession", "endSession", "cancelSession"}) =>
       \A commitRepairChars \in C28_RepairWindows :
          Len(C28_Committed(completedSegments, processorSessionSegments, segs))
            - Len(C28_Committed(completedSegments', processorSessionSegments', segs'))
              <= commitRepairChars]_vars

\* C29: when the transcription of the same payload has failed in two calls
\* that are both still running, there is one retry sequence for the payload,
\* not two at the same time.
C29_Retrying(r) ==
  /\ gemini.req[r].pc \in {"call", "delay"}
  /\ gemini.req[r].lastResponse \in {"empty", "transient", "auth"}

C29_OneRetrySequencePerPayload ==
  \A r1, r2 \in 1..MaxRequests :
     (/\ C29_Retrying(r1)
      /\ C29_Retrying(r2)
      /\ gemini.req[r1].audio = gemini.req[r2].audio) => r1 = r2

\* C30: the delays a request waits between its attempts double from one
\* retry to the next until they reach the maximum, and none is shorter than
\* the one before.
C30_Min(a, b) == IF a <= b THEN a ELSE b

C30_DelaysDouble ==
  \A r \in 1..MaxRequests :
     \A k \in 1..(Len(gemini.req[r].waited) - 1) :
        gemini.req[r].waited[k + 1]
          = C30_Min(2 * gemini.req[r].waited[k], RetryDelayMaximum)

\* C31: for every maxRetries the schema accepts, 0 included, a request that
\* returns an error has called the model at least once; maxRetries limits
\* the attempts made after the first one.
C31_AtLeastOneAttempt ==
  \A r \in 1..MaxRequests :
     /\ gemini.req[r].attempts <= gemini.maxRetries + 1
     /\ (gemini.req[r].pc = "done" /\ gemini.req[r].result = "err") =>
          gemini.req[r].attempts >= 1

\* C32: the hotkey listener emits events only while it is listening; every
\* release event comes after a press event with no release in between; and
\* a longPress event follows a release event, right after it, exactly when
\* the time between that press and the release is at least the threshold.
C32_LastPress(ev, n) ==
  CHOOSE p \in 1..(n - 1) :
    /\ ev[p].type = "press"
    /\ \A q \in (p + 1)..(n - 1) : ev[q].type # "press"

C32_LogInOrder(ev) ==
  \A n \in DOMAIN ev :
     /\ ev[n].type = "release" =>
          /\ \E p \in 1..(n - 1) :
               /\ ev[p].type = "press"
               /\ \A q \in (p + 1)..(n - 1) : ev[q].type # "release"
          /\ (ev[n].timestamp - ev[C32_LastPress(ev, n)].timestamp
                >= hotkey.config.threshold)
               <=> (n + 1 \in DOMAIN ev /\ ev[n + 1].type = "longPress")
     /\ ev[n].type = "longPress" =>
          /\ n > 1
          /\ ev[n - 1].type = "release"
          /\ ev[n - 1].timestamp = ev[n].timestamp

C32_HotkeyEvents ==
  [][/\ hotkey'.events # hotkey.events => hotkey.listening
     /\ C32_LogInOrder(hotkey'.events)]_vars

C32_Witness ==
  /\ hotkey.listening
  /\ Len(hotkey.events) = 3
  /\ hotkey.events[1].type = "press"
  /\ hotkey.events[2].type = "release"
  /\ hotkey.events[2].timestamp - hotkey.events[1].timestamp = hotkey.config.threshold
  /\ hotkey.events[3].type = "longPress"

\* C38: the audio recorder emits data chunks only while its state is
\* recording, at most one chunk timer runs at any time, and the state is
\* never idle while a chunk timer runs, also when start() is called before
\* the deferred idle transition of an earlier stop() has fired.
C38_ChunksOnlyWhileRecording ==
  [][/\ last'.op = "data" => recorder.state = "recording"
     /\ Cardinality(recorder'.timers) <= 1
     /\ recorder'.state = "idle" => recorder'.timers = {}]_vars

\* C35: every change of the session state is announced by a stateChange
\* event: a listener that starts at idle and applies the events agrees with
\* getState(), also after cancelSession and after the deferred reset.
C35_ListenerAgrees == listenerState = currentState

\* C33: a session has at most one synthetic segment submitted to the
\* pipeline and at most one sessionComplete event, however many times
\* endSession is called before the session is reset: a synthetic segment is
\* only submitted by the endSession that ends the recording, and
\* sessionComplete is not emitted while the reset of an earlier completion
\* of the session is pending.
C33_EndSessionOnce ==
  [][/\ (last'.op = "endSession" /\ NewSegments # {}) => currentState = "recording"
     /\ (last'.op = "endComplete" /\ currentSessionId # 0
           /\ \A i \in Completing : calls[i].sid = currentSessionId) =>
          resetTimers = 0]_vars

\* C34: a session that has been started is reset by the deferred timer only
\* after it has completed, and its state, buffer and segment list are not
\* changed by the continuation of a call made for an earlier session.
C34_NoStaleInterference ==
  [][currentSessionId # 0 =>
       /\ last'.op = "resetTimer" => currentState = "completed"
       /\ (last'.op \in {"addResume", "endResume", "endComplete"}
             /\ managerVars' # managerVars) =>
            \A i \in DOMAIN calls :
               (IF Len(calls') < Len(calls)
                  THEN calls' = RemoveAt(calls, i)
                  ELSE calls'[i] # calls[i]) =>
                 calls[i].sid = currentSessionId]_vars

\* C36: a segment is in the active set as long as its processSegment call is
\* in flight; when the call returns the segment leaves the active set and is
\* appended to the completed list once; so the active set is empty only when
\* no call is in flight, also across startSession calls.
C36_ActiveWhileInFlight ==
  [][/\ \A i \in DOMAIN calls' :
          calls'[i].pc \in PipelinePcs => calls'[i].seg \in activeSegments'
     /\ \A i \in Resumed(PipelinePcs) :
          calls'[i].pc = "resume" =>
            /\ calls[i].seg \notin activeSegments'
            /\ completedSegments' = Append(completedSegments, calls[i].seg)]_vars

\* C39: startSession, addAudioSegment and endSession never throw or reject:
\* each of them resolves to a Result, with or without an error listener.
C39_NeverThrows ==
  last.op \in {"startSession", "addAudioSegment", "addResume", "endSession",
               "endResume", "endComplete"} => last.res # "throw"

\* C37: applyDictionary terminates for every dictionary load() accepts and
\* every text: each turn of its scan loop goes on to the next entry, or
\* returns, or leaves less of the text to scan than before.
C37_ScanProgress ==
  [][(dict.pc = "scan" /\ last'.op = "dictionaryScan") =>
       \/ dict'.pc = "done"
       \/ dict'.k > dict.k
       \/ Len(dict'.resultText) - dict'.lastIndex
            < Len(dict.resultText) - dict.lastIndex]_vars

====
